---- MODULE Spec2Model ----
(***************************************************************************)
(* Blocking I2C master engine of gd32e103-hal (src/src/i2c.rs).            *)
(*                                                                         *)
(* The model holds the peripheral registers the driver touches (CTL0 and   *)
(* the write-0-to-clear error bits of STAT0), the BlockingI2c              *)
(* configuration, the position of the running operation, and a log of the  *)
(* register accesses the operation has made.  The hardware is the          *)
(* environment: the read-only status bits, the error bits it raises, the   *)
(* bytes it receives and the DWT cycle counter are inputs drawn at the     *)
(* read that observes them.                                                *)
(***************************************************************************)
EXTENDS Integers, Sequences, FiniteSets, TLC

---------------------------------------------------------------------------
\* Bounds of the model.

\* start_retries ranges over 0..MaxRetries (u8 in the source).
MaxRetries == 2
\* write / write_read byte sequences have length 0..MaxBytes.
MaxBytes == 2
\* read / write_read buffers have length 0..MaxBuf.
MaxBuf == 4
\* microsecond budgets handed to the constructor.
StartTimeoutUs == 1
AddrTimeoutUs == 2
DataTimeoutUs == 3
\* largest number of cycles the counter advances between two samples.
MaxAdvance == 2

\* system clock handed to the constructor, in Hz.
SysclkHz == 1500000

\* Hz per MHz, the divisor of blocking_i2c.
MHz == 1000000

\* peripheral clock of the engine the operations run on, in Hz.
Pclk1Hz == 8000000
\* bus frequency of the engine the operations run on, in Hz.
BusHz == 100000
\* a microsecond budget whose cycle count does not fit 32 bits at 120 MHz.
LongUs == 40000000

\* create_internal: assert!(mode.get_frequency().0 <= 400_000)
MaxFrequency == 400000

---------------------------------------------------------------------------
\* 32-bit unsigned values as <<high half, low half>> of 16 bits each.

W16 == 2 ^ 16

U32Of(n) == << (n \div W16) % W16, n % W16 >>

U32Max == << W16 - 1, W16 - 1 >>

\* a + n modulo 2^32, for 0 <= n < 2^16: the free-running counter advancing.
WrappingAdd(a, n) ==
    LET lo == a[2] + n
    IN  << (a[1] + (lo \div W16)) % W16, lo % W16 >>

\* u32::wrapping_sub
WrappingSubBorrowLost(a, b) ==
    << (a[1] - b[1]) % W16, (a[2] - b[2]) % W16 >>

WrappingSub(a, b) ==
    LET lo == a[2] - b[2]
        borrow == IF lo < 0 THEN 1 ELSE 0
    IN  << (a[1] - b[1] - borrow) % W16, lo % W16 >>

\* a >= b on u32
GeqU32(a, b) == a[1] > b[1] \/ (a[1] = b[1] /\ a[2] >= b[2])

---------------------------------------------------------------------------
\* STAT0 and the status decoder.

\* write-0-to-clear error bits of STAT0
ErrFlags == {"berr", "lostarb", "aerr", "ouerr"}
\* read-only status bits of STAT0, driven by the hardware
ReadyFlags == {"sbsend", "addsend", "tbe", "btc", "rbne"}

HwErrors == {"Bus", "Arbitration", "Acknowledge", "Overrun"}

\* stat0.write(|w| w.<flag>().<clear>()): svd2rust's write starts from the
\* register's reset value (0) and changes the named field, so the value
\* written is 0 in every bit; a 0 clears a write-0-to-clear bit and the
\* read-only bits are not affected.
Stat0Write(st, flag) == {f \in st : f \notin ErrFlags /\ f # flag}

\* wait_for_flag!: one poll of the status decoder on the value `st` read from
\* STAT0; the result and the value of STAT0 after the poll.
WaitForFlagAerrFirst(st, flag) ==
    IF "aerr" \in st THEN [res |-> "Acknowledge", stat0 |-> Stat0Write(st, "aerr")]
    ELSE IF "berr" \in st THEN [res |-> "Bus", stat0 |-> Stat0Write(st, "berr")]
    ELSE IF "lostarb" \in st
    THEN [res |-> "Arbitration", stat0 |-> Stat0Write(st, "lostarb")]
    ELSE IF "ouerr" \in st THEN [res |-> "Overrun", stat0 |-> Stat0Write(st, "ouerr")]
    ELSE IF flag \in st THEN [res |-> "Ok", stat0 |-> st]
    ELSE [res |-> "WouldBlock", stat0 |-> st]

WaitForFlagNoClear(st, flag) ==
    IF "berr" \in st THEN [res |-> "Bus", stat0 |-> st]
    ELSE IF "lostarb" \in st THEN [res |-> "Arbitration", stat0 |-> st]
    ELSE IF "aerr" \in st THEN [res |-> "Acknowledge", stat0 |-> st]
    ELSE IF "ouerr" \in st THEN [res |-> "Overrun", stat0 |-> st]
    ELSE IF flag \in st THEN [res |-> "Ok", stat0 |-> st]
    ELSE [res |-> "WouldBlock", stat0 |-> st]

WaitForFlag(st, flag) ==
    IF "berr" \in st THEN [res |-> "Bus", stat0 |-> Stat0Write(st, "berr")]
    ELSE IF "lostarb" \in st
    THEN [res |-> "Arbitration", stat0 |-> Stat0Write(st, "lostarb")]
    ELSE IF "aerr" \in st THEN [res |-> "Acknowledge", stat0 |-> Stat0Write(st, "aerr")]
    ELSE IF "ouerr" \in st THEN [res |-> "Overrun", stat0 |-> Stat0Write(st, "ouerr")]
    ELSE IF flag \in st THEN [res |-> "Ok", stat0 |-> st]
    ELSE [res |-> "WouldBlock", stat0 |-> st]

\* busy_wait! / busy_wait_cycles!: whether the loop ends after a poll that
\* gave `res`, `now` being the counter sampled after that poll.
BusyWaitExitNoTimeout(res, now, started, cycles) == res # "WouldBlock"

BusyWaitExit(res, now, started, cycles) ==
    res # "WouldBlock" \/ GeqU32(WrappingSub(now, started), cycles)

---------------------------------------------------------------------------
\* CTL0.

\* reset value of CTL0: every bit 0 (ACK disabled, ACK position `current`).
Ctl0ResetValue ==
    [i2cen |-> FALSE, sreset |-> FALSE, start |-> FALSE, stop |-> FALSE,
     acken |-> FALSE, poap |-> FALSE]

\* I2c::init, as far as CTL0 goes: ctl0.write(i2cen disabled) writes the reset
\* value with I2CEN clear, the last step sets I2CEN by read-modify-write.
InitCtl0(c) == [Ctl0ResetValue EXCEPT !.i2cen = TRUE]

\* I2c::reset: write I2CEN|SRESET, write the reset value, init().
ResetCtl0NoRegisterReset(c) == [c EXCEPT !.i2cen = TRUE]

ResetCtl0(c) == InitCtl0(Ctl0ResetValue)

\* send_start / send_stop
SendStart(c) == [c EXCEPT !.start = TRUE]
SendStop(c) == [c EXCEPT !.stop = TRUE]

\* the ctl0.modify calls of Read::read, by the fields they set
Ctl0Modify(c, what) ==
    CASE what = "nak" -> [c EXCEPT !.acken = FALSE]
      [] what = "ack" -> [c EXCEPT !.acken = TRUE]
      [] what = "next_ack" -> [c EXCEPT !.poap = TRUE, !.acken = TRUE]
      [] what = "current_nak" -> [c EXCEPT !.poap = FALSE, !.acken = FALSE]

\* send_addr: addr << 1 | read, in u8
SendAddrNoShift(addr, read) == (addr % 256) + (IF read THEN 1 ELSE 0)

SendAddr(addr, read) == ((addr * 2) % 256) + (IF read THEN 1 ELSE 0)

---------------------------------------------------------------------------
\* The operations as the sequence of steps their code runs through.

Ins(k, flag, idx) == [k |-> k, flag |-> flag, idx |-> idx]

\* for byte in &bytes[1..] { busy_wait_cycles!(tbe)?; data.write(byte) }
RECURSIVE TailBytes(_, _)
TailBytes(i, n) ==
    IF i > n THEN << >>
    ELSE << Ins("wait", "tbe", 1), Ins("wdata", "", i) >> \o TailBytes(i + 1, n)

\* write_bytes_and_wait; a wait with idx = 1 is one whose error goes through
\* the Acknowledge handler of write_without_stop.
WriteBytesAndWaitBtcFirst(n) ==
    << Ins("rdstat", "", 0), Ins("wait", "btc", 1), Ins("wdata", "", 1) >>
        \o TailBytes(2, n)

WriteBytesAndWait(n) ==
    << Ins("rdstat", "", 0), Ins("wdata", "", 1) >>
        \o TailBytes(2, n) \o << Ins("wait", "btc", 1) >>

\* write_without_stop
WriteWithoutStop(n) ==
    << Ins("enter", "write_without_stop", 0), Ins("start", "", 0), Ins("addr", "", 0) >>
        \o WriteBytesAndWait(n)

\* Write::write
WriteProgNoStopWait(n) == WriteWithoutStop(n) \o << Ins("stop", "", 0) >>

WriteProg(n) ==
    WriteWithoutStop(n) \o << Ins("stop", "", 0), Ins("wstop", "", 0) >>

\* for byte in first_bytes { busy_wait_cycles!(rbne)?; *byte = data.read() }
RECURSIVE LeadingBytes(_, _)
LeadingBytes(i, n) ==
    IF i > n THEN << >>
    ELSE << Ins("wait", "rbne", 0), Ins("rdata", "", i) >> \o LeadingBytes(i + 1, n)

\* Read::read, branch `1`
Read1StopAfterRead ==
    << Ins("start", "", 0), Ins("addr", "", 1), Ins("ctl0", "nak", 0),
       Ins("rdstat", "", 0), Ins("wait", "rbne", 0),
       Ins("rdata", "", 1), Ins("stop", "", 0), Ins("wstop", "", 0),
       Ins("ctl0", "ack", 0) >>

Read1 ==
    << Ins("start", "", 0), Ins("addr", "", 1), Ins("ctl0", "nak", 0),
       Ins("rdstat", "", 0), Ins("stop", "", 0), Ins("wait", "rbne", 0),
       Ins("rdata", "", 1), Ins("wstop", "", 0), Ins("ctl0", "ack", 0) >>

\* Read::read, branch `2`
Read2StopAfterReads ==
    << Ins("ctl0", "next_ack", 0), Ins("start", "", 0), Ins("addr", "", 1),
       Ins("rdstat", "", 0), Ins("ctl0", "nak", 0), Ins("wait", "btc", 0),
       Ins("rdata", "", 1), Ins("rdata", "", 2), Ins("stop", "", 0),
       Ins("wstop", "", 0), Ins("ctl0", "current_nak", 0), Ins("ctl0", "ack", 0) >>

Read2 ==
    << Ins("ctl0", "next_ack", 0), Ins("start", "", 0), Ins("addr", "", 1),
       Ins("rdstat", "", 0), Ins("ctl0", "nak", 0), Ins("wait", "btc", 0),
       Ins("stop", "", 0), Ins("rdata", "", 1), Ins("rdata", "", 2),
       Ins("wstop", "", 0), Ins("ctl0", "current_nak", 0), Ins("ctl0", "ack", 0) >>

\* Read::read, branch `buffer_len`: every length but 1 and 2.  The split
\* point is buffer_len - 3.
ReadNSplit2(n) ==
    << Ins("start", "", 0), Ins("addr", "", 1), Ins("ctl0", "ack", 0),
       Ins("rdstat", "", 0), Ins("split", "", n) >>
        \o LeadingBytes(1, n - 2)
        \o << Ins("wait", "btc", 0), Ins("ctl0", "nak", 0), Ins("rdata", "", n - 1),
              Ins("stop", "", 0), Ins("rdata", "", n),
              Ins("wstop", "", 0), Ins("ctl0", "ack", 0) >>

ReadN(n) ==
    << Ins("start", "", 0), Ins("addr", "", 1), Ins("ctl0", "ack", 0),
       Ins("rdstat", "", 0), Ins("split", "", n) >>
        \o LeadingBytes(1, n - 3)
        \o << Ins("wait", "btc", 0), Ins("ctl0", "nak", 0), Ins("rdata", "", n - 2),
              Ins("stop", "", 0), Ins("rdata", "", n - 1),
              Ins("wait", "rbne", 0), Ins("rdata", "", n),
              Ins("wstop", "", 0), Ins("ctl0", "ack", 0) >>

\* Read::read
ReadProg(n) ==
    << Ins("enter", "read", 0) >>
        \o (IF n = 1 THEN Read1 ELSE IF n = 2 THEN Read2 ELSE ReadN(n))

\* WriteRead::write_read
WriteReadProgAlwaysStop(nbytes, nbuf) ==
    (IF nbytes # 0 THEN WriteWithoutStop(nbytes) \o << Ins("stop", "", 0) >> ELSE << >>)
        \o (IF nbuf # 0 THEN ReadProg(nbuf)
            ELSE IF nbytes # 0 THEN << Ins("wstop", "", 0) >>
            ELSE << >>)

WriteReadProgAlwaysWrite(nbytes, nbuf) ==
    WriteWithoutStop(nbytes)
        \o (IF nbuf # 0 THEN ReadProg(nbuf)
            ELSE IF nbytes # 0 THEN << Ins("stop", "", 0), Ins("wstop", "", 0) >>
            ELSE << >>)

WriteReadProg(nbytes, nbuf) ==
    (IF nbytes # 0 THEN WriteWithoutStop(nbytes) ELSE << >>)
        \o (IF nbuf # 0 THEN ReadProg(nbuf)
            ELSE IF nbytes # 0 THEN << Ins("stop", "", 0), Ins("wstop", "", 0) >>
            ELSE << >>)

Program(name, nbytes, nbuf) ==
    CASE name = "write" -> WriteProg(nbytes)
      [] name = "read" -> ReadProg(nbuf)
      [] name = "write_read" -> WriteReadProg(nbytes, nbuf)

---------------------------------------------------------------------------
\* Clock programming (I2c::init) and the cycle budgets (blocking_i2c).

\* `as u16`, `as u8`
AsU16(n) == n % 65536
AsU8(n) == n % 256

\* Mode::standard(f), Mode::fast(f, duty_cycle)
Standard(f) == [kind |-> "Standard", frequency |-> f, duty_cycle |-> "none"]
Fast(f, d) == [kind |-> "Fast", frequency |-> f, duty_cycle |-> d]
NoMode == [kind |-> "none", frequency |-> 0, duty_cycle |-> "none"]

\* let pclk1_mhz = (self.pclk1 / 1000000) as u16
Pclk1Mhz(p) == AsU16(p \div MHz)

\* ctl1.write(i2cclk = pclk1_mhz as u8)
I2cclk(p) == AsU8(Pclk1Mhz(p))

\* pclk1_mhz * 300 in u16 overflows
RiseTimeOverflows(m, p) == m.kind = "Fast" /\ Pclk1Mhz(p) * 300 >= 65536

\* rt.write(risetime = ...)
RiseTime(m, p) ==
    IF m.kind = "Standard" THEN AsU8(AsU16(Pclk1Mhz(p) + 1))
    ELSE AsU8(AsU16(AsU16(Pclk1Mhz(p) * 300) \div 1000 + 1))

\* the divisor of pclk1 in the clkc computation: freq.0 * 2, * 3, * 25
ClkcDivisor(m) ==
    CASE m.kind = "Standard" -> m.frequency * 2
      [] m.duty_cycle = "Ratio2to1" -> m.frequency * 3
      [] OTHER -> m.frequency * 25

\* the least clkc of the mode: .max(4), .max(1)
ClkcFloor(m) == IF m.kind = "Standard" THEN 4 ELSE 1

\* ckcfg.write(clkc = ((pclk1 / divisor) as u16).max(floor), dtcy, fast);
\* the fields not named keep the reset value 0
Clkc(m, p) ==
    LET q == AsU16(p \div ClkcDivisor(m))
    IN  IF q > ClkcFloor(m) THEN q ELSE ClkcFloor(m)

CkcfgResetValue == [clkc |-> 0, dtcy |-> FALSE, fast |-> FALSE]

Ckcfg(m, p) ==
    [clkc |-> Clkc(m, p),
     dtcy |-> (m.kind = "Fast" /\ m.duty_cycle = "Ratio16to9"),
     fast |-> (m.kind = "Fast")]

\* u32 * u32 for a < 2^31 and b < 2^15, by 16-bit halves: the product modulo
\* 2^32 and whether it overflowed
MulU32(a, b) ==
    LET lo == (a % W16) * b
        hi == (a \div W16) * b + (lo \div W16)
    IN  [val |-> << hi % W16, lo % W16 >>, overflow |-> hi >= W16]

\* I2c::init: the registers after it, `old` being the registers before it.
\* The division panics on a divisor of 0 and the u16 product panics on
\* overflow when overflow checks are on (`checks`), in both cases after
\* ctl1 and ctl0 were written and before ckcfg is.
I2cInit(m, p, checks, old) ==
    IF checks /\ RiseTimeOverflows(m, p)
    THEN [panic |-> TRUE, ctl1 |-> I2cclk(p), ctl0 |-> Ctl0ResetValue,
          rt |-> old.rt, ckcfg |-> old.ckcfg, writes |-> 2]
    ELSE IF ClkcDivisor(m) = 0
    THEN [panic |-> TRUE, ctl1 |-> I2cclk(p), ctl0 |-> Ctl0ResetValue,
          rt |-> RiseTime(m, p), ckcfg |-> old.ckcfg, writes |-> 3]
    ELSE [panic |-> FALSE, ctl1 |-> I2cclk(p), ctl0 |-> InitCtl0(Ctl0ResetValue),
          rt |-> RiseTime(m, p), ckcfg |-> Ckcfg(m, p), writes |-> 5]

\* the register writes of init and of reset, in program order, each with
\* what it does to I2CEN
Step(reg, i2cen) == [reg |-> reg, i2cen |-> i2cen]

InitStepsEnableEarly ==
    << Step("ctl1", "keep"), Step("ctl0", "clear"), Step("rt", "keep"),
       Step("ctl0", "set"), Step("ckcfg", "keep") >>

InitSteps ==
    << Step("ctl1", "keep"), Step("ctl0", "clear"), Step("rt", "keep"),
       Step("ckcfg", "keep"), Step("ctl0", "set") >>

ResetSteps == << Step("ctl0", "set"), Step("ctl0", "clear") >>

\* the writes of `steps`, each with the value of I2CEN before it, I2CEN
\* being `en` before the first
RECURSIVE Writes(_, _)
Writes(steps, en) ==
    IF steps = << >> THEN << >>
    ELSE LET h == Head(steps)
             after == IF h.i2cen = "keep" THEN en ELSE h.i2cen = "set"
         IN  << [reg |-> h.reg, en |-> en] >> \o Writes(Tail(steps), after)

---------------------------------------------------------------------------
\* State.

VARIABLES
    ctl0,           \* CTL0: [i2cen, sreset, start, stop, acken, poap]
    stat0,          \* the error bits of STAT0 that are set
    start_retries,  \* BlockingI2c.start_retries
    start_timeout,  \* BlockingI2c.start_timeout, cycles (u32)
    addr_timeout,   \* BlockingI2c.addr_timeout, cycles (u32)
    data_timeout,   \* BlockingI2c.data_timeout, cycles (u32)
    pc,             \* "idle": no operation in progress; "run": inside one;
                    \* "done": it has returned and the caller holds the result
    op,             \* the call: [name, addr, bytes, nbuf]
    prog,           \* the steps of the call
    ip,             \* the step the call is at
    sub,            \* position inside the step: "enter", "loop", "sample", "poll"
    retries_left,   \* local of send_start_and_wait
    last_ret,       \* local of send_start_and_wait
    started,        \* local of busy_wait_cycles!: the first counter sample
    now,            \* the last sample of the DWT cycle counter
    ticks,          \* cycles that really elapsed since `started` was sampled
    obs,            \* the busy-wait that has just failed, if one has
    buffer,         \* the caller's read buffer
    ret,            \* what the last operation returned ("none" before it has)
    log,            \* the register accesses of the operation, in order
    since,          \* decoder on its own: error bits raised since the last poll
    dflag,          \* decoder on its own: the flag the last poll asked for
    dseen,          \* decoder on its own: the value of STAT0 the last poll read
    dres,           \* decoder on its own: the result of the last poll
    drepeat,        \* decoder on its own: the last poll reported the error of
                    \* the poll before it though its bit was not raised again
    mode,           \* I2c.mode
    pclk1,          \* I2c.pclk1, Hz
    ctl1,           \* CTL1.I2CCLK
    rt,             \* RT.RISETIME
    ckcfg,          \* CKCFG: [clkc, dtcy, fast]
    built,          \* construction: "none" before it, "ok": an engine was
                    \* returned, "assert", "init", "overflow": it panicked there
    args,           \* the arguments construction was called with
    wlog            \* construction and primitives on their own: the registers
                    \* the step just taken wrote, when it was init or reset,
                    \* each with the value of I2CEN it was written under

hwvars == << ctl0, stat0 >>
decvars == << since, dflag, dseen, dres, drepeat >>
clkcfg == << mode, pclk1, built, args >>
clkregs == << ctl1, rt, ckcfg >>
blkcfg == << start_retries, start_timeout, addr_timeout, data_timeout,
             decvars, clkcfg >>
blkvars == << blkcfg, wlog >>
cfgvars == << blkvars, clkregs >>
waitvars == << started, now, ticks >>
startvars == << retries_left, last_ret >>
callvars == << op, prog >>
vars == << hwvars, cfgvars, waitvars, startvars, callvars,
           pc, ip, sub, obs, buffer, ret, log >>

Ev(ev, flag, res, arg) == [ev |-> ev, flag |-> flag, res |-> res, arg |-> arg]

NoObs == [res |-> "none", cycles |-> U32Of(0), started |-> U32Of(0), ticks |-> 0]

\* the addresses called with
Addrs == {80, 127}

\* the k-th byte the addressed device sends in a transaction
RxByte(k) == 160 + k

\* the byte sequences written: of each length 0..MaxBytes the ascending
\* 1, 2, .. n and the descending n, .. 2, 1
ByteSeqs ==
    {[i \in 1..n |-> i] : n \in 0..MaxBytes}
        \cup {[i \in 1..n |-> n + 1 - i] : n \in 0..MaxBytes}

\* the counter value at the first sample of a wait: anything; 0 and the two
\* values before the wrap-around
CycleStarts == {U32Of(0), U32Max}

\* what the hardware shows in STAT0 at a poll for `flag`: nothing, `flag`, or
\* one error bit with `flag` set or not
HwStatus(flag) ==
    {e \cup r : e \in {{}} \cup {{f} : f \in ErrFlags}, r \in {{}, {flag}}}

\* blocking_i2c: the cycle budgets, u32 products of the microsecond budgets
\* and sysclk_mhz; `overflow`: one of the products does not fit 32 bits
BlockingI2c(start_us, retries, addr_us, data_us, sysclk) ==
    LET sysclk_mhz == sysclk \div MHz
        st == MulU32(start_us, sysclk_mhz)
        ad == MulU32(addr_us, sysclk_mhz)
        da == MulU32(data_us, sysclk_mhz)
    IN  [start_timeout |-> st.val,
         start_retries |-> retries,
         addr_timeout |-> ad.val,
         data_timeout |-> da.val,
         overflow |-> st.overflow \/ ad.overflow \/ da.overflow]

\* the arguments of BlockingI2c::create_internal; `checks`: the build has
\* overflow checks on
Args(m, p, su, r, au, du, sc, checks) ==
    [mode |-> m, pclk1 |-> p, start_us |-> su, retries |-> r, addr_us |-> au,
     data_us |-> du, sysclk |-> sc, checks |-> checks]

\* the peripheral out of reset, no engine, no operation, no poll yet
NoRegs == [rt |-> 0, ckcfg |-> CkcfgResetValue]

Idle ==
    /\ stat0 = {}
    /\ pc = "idle"
    /\ op = [name |-> "none", addr |-> 0, bytes |-> << >>, nbuf |-> 0]
    /\ prog = << >>
    /\ ip = 1
    /\ sub = "enter"
    /\ retries_left = 0
    /\ last_ret = "WouldBlock"
    /\ started = U32Of(0)
    /\ now = U32Of(0)
    /\ ticks = 0
    /\ obs = NoObs
    /\ buffer = << >>
    /\ ret = "none"
    /\ log = << >>
    /\ since = {}
    /\ dflag = ""
    /\ dseen = {}
    /\ dres = "none"
    /\ drepeat = FALSE

\* BlockingI2c::create_internal for a standard-mode engine: the engine the
\* operations run on
Init ==
    /\ Idle
    /\ mode = Standard(BusHz)
    /\ pclk1 = Pclk1Hz
    /\ built = "ok"
    /\ wlog = << >>
    /\ \E r \in 0..MaxRetries :
         args = Args(mode, pclk1, StartTimeoutUs, r, AddrTimeoutUs, DataTimeoutUs,
                     SysclkHz, TRUE)
    /\ LET i == I2cInit(mode, pclk1, TRUE, NoRegs)
       IN  /\ ctl0 = i.ctl0
           /\ ctl1 = i.ctl1
           /\ rt = i.rt
           /\ ckcfg = i.ckcfg
    /\ LET b == BlockingI2c(args.start_us, args.retries, args.addr_us, args.data_us,
                            args.sysclk)
       IN  /\ start_retries = b.start_retries
           /\ start_timeout = b.start_timeout
           /\ addr_timeout = b.addr_timeout
           /\ data_timeout = b.data_timeout

---------------------------------------------------------------------------
\* Steps.

Instr == prog[ip]
At(k) == pc = "run" /\ ip <= Len(prog) /\ Instr.k = k

\* the operation returns r
Return(r) ==
    /\ pc' = "done"
    /\ ret' = r
    /\ sub' = "enter"
    /\ retries_left' = 0
    /\ last_ret' = "WouldBlock"
    /\ UNCHANGED << ip, callvars, cfgvars >>

\* the step is done, the next one is entered
Advance ==
    /\ ip' = ip + 1
    /\ sub' = "enter"
    /\ retries_left' = 0
    /\ last_ret' = "WouldBlock"
    /\ UNCHANGED << pc, ret, callvars, cfgvars >>

\* a step outside a busy-wait
NoWait == /\ obs' = NoObs /\ UNCHANGED waitvars

\* a public operation is called
Call(name, addr, bytes, nbuf) ==
    /\ pc = "idle"
    /\ pc' = "run"
    /\ op' = [name |-> name, addr |-> addr, bytes |-> bytes, nbuf |-> nbuf]
    /\ prog' = Program(name, Len(bytes), nbuf)
    /\ ip' = 1
    /\ sub' = "enter"
    /\ buffer' = [i \in 1..nbuf |-> 0]
    /\ ret' = "none"
    /\ log' = << >>
    /\ NoWait
    /\ UNCHANGED << hwvars, cfgvars, startvars >>

CallWrite == \E a \in Addrs, bs \in ByteSeqs : Call("write", a, bs, 0)
CallRead == \E a \in Addrs, n \in 0..MaxBuf : Call("read", a, << >>, n)
CallWriteRead ==
    \E a \in Addrs, bs \in ByteSeqs, n \in 0..MaxBuf : Call("write_read", a, bs, n)

\* write_without_stop or read is entered
Enter ==
    /\ At("enter")
    /\ log' = Append(log, Ev("CALL", Instr.flag, "", 0))
    /\ Advance /\ NoWait
    /\ UNCHANGED << hwvars, buffer >>

\* the caller has taken the result; the engine is idle again
NoCall == [name |-> "none", addr |-> 0, bytes |-> << >>, nbuf |-> 0]

Finish ==
    /\ pc = "done"
    /\ pc' = "idle"
    /\ op' = NoCall
    /\ prog' = << >>
    /\ ip' = 1
    /\ buffer' = << >>
    /\ ret' = "none"
    /\ log' = << >>
    /\ NoWait
    /\ UNCHANGED << hwvars, cfgvars, startvars, sub >>

\* Ok(()) at the end of the operation
ReturnOk ==
    /\ pc = "run"
    /\ ip > Len(prog)
    /\ Return("Ok") /\ NoWait
    /\ UNCHANGED << hwvars, buffer, log >>

\* the counter at the first sample of a wait that is being entered, and the
\* cycles that pass until the exit condition samples it: the loop samples the
\* counter again only after a poll that gave WouldBlock
FirstSample(res) ==
    IF sub = "poll" THEN {started}
    ELSE IF res = "WouldBlock" THEN CycleStarts ELSE {U32Of(0)}
Advances(res) == IF res = "WouldBlock" THEN 1..MaxAdvance ELSE {1}

\* One iteration of busy_wait_cycles!, whose poll gave `res`: `s` is the
\* counter at the first sample (taken when the wait is entered), `d` the
\* cycles that pass until the sample of the exit condition.
BusyWait(res, cycles, s, d) ==
    LET first == sub # "poll"
        st == IF first THEN s ELSE started
        nw == WrappingAdd(IF first THEN s ELSE now, d)
    IN  [exit |-> BusyWaitExit(res, nw, st, cycles),
         started |-> st, now |-> nw,
         ticks |-> (IF first THEN 0 ELSE ticks) + d]

\* the loop of busy_wait! goes round again
WaitGoesOn(b) ==
    /\ sub' = "poll"
    /\ started' = b.started /\ now' = b.now /\ ticks' = b.ticks
    /\ obs' = NoObs
    /\ UNCHANGED << pc, ip, ret, log, buffer, startvars, callvars, cfgvars >>

\* the loop of busy_wait! breaks with res; obs keeps a failure, and the
\* cycles that had elapsed when it is a timeout, until the next step
WaitEnds(b, res, cycles) ==
    /\ started' = U32Of(0) /\ now' = U32Of(0) /\ ticks' = 0
    /\ obs' = IF res = "Ok" THEN NoObs
              ELSE [res |-> res, cycles |-> cycles,
                    started |-> IF res = "WouldBlock" THEN b.started ELSE U32Of(0),
                    ticks |-> IF res = "WouldBlock" THEN b.ticks ELSE 0]

\* send_start_and_wait: while retries_left > 0
RetriesLeftOffByOne(rl) == rl > 1

RetriesLeftOneMore(rl) == rl >= 0

RetriesLeft(rl) == rl > 0

\* send_addr_and_wait: if ret == Err(Other(Error::Acknowledge)) { send_stop() }
AddrStopsNever(res) == FALSE

AddrStopsOnTimeout(res) == res \in {"Acknowledge", "WouldBlock"}

AddrStops(res) == res = "Acknowledge"

\* write_without_stop: if ret == Err(Other(Error::Acknowledge)) { send_stop() },
\* ret being what write_bytes_and_wait returned (inwbw: the wait is one of its)
WriteStopsNever(res, inwbw) == FALSE

WriteStops(res, inwbw) == inwbw /\ res = "Acknowledge"

\* send_start_and_wait: the head of the while loop; send_start()
StartLoop ==
    /\ At("start") /\ sub \in {"enter", "loop"}
    /\ LET rl == IF sub = "enter" THEN start_retries ELSE retries_left
           lr == IF sub = "enter" THEN "WouldBlock" ELSE last_ret
       IN  IF RetriesLeft(rl)
           THEN /\ ctl0' = SendStart(ctl0)
                /\ log' = Append(log, Ev("START", "", "", 0))
                /\ sub' = "sample"
                /\ retries_left' = rl
                /\ last_ret' = lr
                /\ obs' = NoObs
                /\ UNCHANGED << pc, ip, ret, callvars, cfgvars >>
           ELSE /\ Return(lr)
                /\ UNCHANGED << ctl0, log, obs >>
    /\ UNCHANGED << waitvars, stat0, buffer >>

\* send_start_and_wait: one poll of wait_after_sent_start; reset() after a
\* failed attempt.  The hardware clears START when it has sent the start
\* condition (SBSEND set).
StartPoll ==
    /\ At("start") /\ sub \in {"sample", "poll"}
    /\ \E hw \in HwStatus("sbsend") :
         LET r == WaitForFlag(stat0 \cup hw, "sbsend")
         IN  \E s \in FirstSample(r.res), d \in Advances(r.res) :
             LET b == BusyWait(r.res, start_timeout, s, d)
             IN
             /\ stat0' = r.stat0 \cap ErrFlags
             /\ IF ~b.exit
                THEN /\ WaitGoesOn(b)
                     /\ UNCHANGED ctl0
                ELSE /\ WaitEnds(b, r.res, start_timeout)
                     /\ IF r.res = "Ok"
                        THEN /\ Advance
                             /\ ctl0' = [ctl0 EXCEPT !.start = FALSE]
                             /\ log' = Append(log, Ev("WAIT", "sbsend", r.res, 0))
                        ELSE /\ ctl0' = ResetCtl0(ctl0)
                             /\ LET i == I2cInit(mode, pclk1, TRUE,
                                                 [rt |-> rt, ckcfg |-> ckcfg])
                                IN  /\ ctl1' = i.ctl1
                                    /\ rt' = i.rt
                                    /\ ckcfg' = i.ckcfg
                             /\ log' = log \o << Ev("WAIT", "sbsend", "Err", 0),
                                                 Ev("RESET", "", "", 0) >>
                             /\ retries_left' = retries_left - 1
                             /\ last_ret' = r.res
                             /\ sub' = "loop"
                             /\ UNCHANGED << pc, ip, ret, callvars, blkvars >>
                     /\ UNCHANGED buffer

\* send_addr_and_wait: stat0.read(); send_addr()
AddrSend ==
    /\ At("addr") /\ sub = "enter"
    /\ log' = log \o << Ev("RD_STAT0", "", "", 0),
                        Ev("ADDR", "", "", SendAddr(op.addr, Instr.idx = 1)) >>
    /\ sub' = "sample"
    /\ NoWait
    /\ UNCHANGED << hwvars, pc, ip, ret, buffer, startvars, callvars, cfgvars >>

\* send_addr_and_wait: one poll for ADDSEND; send_stop() on Acknowledge
AddrPoll ==
    /\ At("addr") /\ sub \in {"sample", "poll"}
    /\ \E hw \in HwStatus("addsend") :
         LET r == WaitForFlag(stat0 \cup hw, "addsend")
         IN  \E s \in FirstSample(r.res), d \in Advances(r.res) :
             LET b == BusyWait(r.res, addr_timeout, s, d)
             IN
             /\ stat0' = r.stat0 \cap ErrFlags
             /\ IF ~b.exit
                THEN /\ WaitGoesOn(b)
                     /\ UNCHANGED ctl0
                ELSE /\ WaitEnds(b, r.res, addr_timeout)
                     /\ IF AddrStops(r.res)
                        THEN /\ ctl0' = SendStop(ctl0)
                             /\ log' = log \o << Ev("WAIT", "addsend", r.res, 0),
                                                 Ev("STOP", "", "", 0) >>
                        ELSE /\ UNCHANGED ctl0
                             /\ log' = Append(log, Ev("WAIT", "addsend", r.res, 0))
                     /\ IF r.res = "Ok" THEN Advance ELSE Return(r.res)
                     /\ UNCHANGED buffer

\* stat0.read(); stat1.read()
RdStat ==
    /\ At("rdstat")
    /\ log' = log \o << Ev("RD_STAT0", "", "", 0), Ev("RD_STAT1", "", "", 0) >>
    /\ Advance /\ NoWait
    /\ UNCHANGED << hwvars, buffer >>

\* data.write(bytes[i]); the index panics when it is out of bounds
WData ==
    /\ At("wdata")
    /\ IF Instr.idx > Len(op.bytes)
       THEN /\ Return("panic")
            /\ UNCHANGED log
       ELSE /\ Advance
            /\ log' = Append(log, Ev("DATA", "", "", op.bytes[Instr.idx]))
    /\ NoWait
    /\ UNCHANGED << hwvars, buffer >>

\* busy_wait_cycles!(wait_for_flag!(flag), data_timeout)?: one poll.  In
\* write_bytes_and_wait (idx = 1) write_without_stop sends a STOP on
\* Acknowledge before it returns the error.
WaitPoll ==
    /\ At("wait")
    /\ \E hw \in HwStatus(Instr.flag) :
         LET r == WaitForFlag(stat0 \cup hw, Instr.flag)
         IN  \E s \in FirstSample(r.res), d \in Advances(r.res) :
             LET b == BusyWait(r.res, data_timeout, s, d)
             IN
             /\ stat0' = r.stat0 \cap ErrFlags
             /\ IF ~b.exit
                THEN /\ WaitGoesOn(b)
                     /\ UNCHANGED ctl0
                ELSE /\ WaitEnds(b, r.res, data_timeout)
                     /\ IF WriteStops(r.res, Instr.idx = 1)
                        THEN /\ ctl0' = SendStop(ctl0)
                             /\ log' = log \o << Ev("WAIT", Instr.flag, r.res, 0),
                                                 Ev("STOP", "", "", 0) >>
                        ELSE /\ UNCHANGED ctl0
                             /\ log' = Append(log, Ev("WAIT", Instr.flag, r.res, 0))
                     /\ IF r.res = "Ok" THEN Advance ELSE Return(r.res)
                     /\ UNCHANGED buffer

\* wait_for_stop: Ok once CTL0.STOP reads 0
WaitForStop(c) == IF ~c.stop THEN "Ok" ELSE "WouldBlock"

\* busy_wait_cycles!(wait_for_stop(), data_timeout)?: one poll.  The hardware
\* clears STOP when it has sent the stop condition: by now (hwdone) or not yet.
WStopPoll ==
    /\ At("wstop")
    /\ \E hwdone \in BOOLEAN :
         LET c == IF hwdone THEN [ctl0 EXCEPT !.stop = FALSE] ELSE ctl0
             res == WaitForStop(c)
         IN  \E s \in FirstSample(res), d \in Advances(res) :
             LET b == BusyWait(res, data_timeout, s, d)
             IN
             /\ ctl0' = c
             /\ IF ~b.exit
                THEN WaitGoesOn(b)
                ELSE /\ WaitEnds(b, res, data_timeout)
                     /\ log' = Append(log, Ev("WAIT", "stop", res, 0))
                     /\ IF res = "Ok" THEN Advance ELSE Return(res)
                     /\ UNCHANGED buffer
    /\ UNCHANGED stat0

\* data-register reads made so far
NRead == Cardinality({i \in 1..Len(log) : log[i].ev = "RD"})

\* buffer[i] = data.read(): the byte the hardware received
RData ==
    /\ At("rdata")
    /\ buffer' = [buffer EXCEPT ![Instr.idx] = RxByte(NRead + 1)]
    /\ log' = Append(log, Ev("RD", "", "", Instr.idx))
    /\ Advance /\ NoWait
    /\ UNCHANGED hwvars

\* ctl0.modify(...) of the ACK and ACK-position bits
Ctl0Step ==
    /\ At("ctl0")
    /\ ctl0' = Ctl0Modify(ctl0, Instr.flag)
    /\ log' = Append(log, Ev("CTL0", Instr.flag, "", 0))
    /\ Advance /\ NoWait
    /\ UNCHANGED << stat0, buffer >>

\* send_stop()
StopStep ==
    /\ At("stop")
    /\ ctl0' = SendStop(ctl0)
    /\ log' = Append(log, Ev("STOP", "", "", 0))
    /\ Advance /\ NoWait
    /\ UNCHANGED << stat0, buffer >>

\* buffer.split_at_mut(buffer_len - 3): panics unless 3 <= buffer_len, on the
\* subtraction (overflow checks on) or on the split point (wrapped)
Split ==
    /\ At("split")
    /\ IF Instr.idx < 3 THEN Return("panic") ELSE Advance
    /\ NoWait
    /\ UNCHANGED << hwvars, buffer, log >>

Next ==
    \/ CallWrite
    \/ CallRead
    \/ CallWriteRead
    \/ Enter
    \/ StartLoop
    \/ StartPoll
    \/ AddrSend
    \/ AddrPoll
    \/ RdStat
    \/ WData
    \/ WaitPoll
    \/ WStopPoll
    \/ RData
    \/ Ctl0Step
    \/ StopStep
    \/ Split
    \/ ReturnOk
    \/ Finish

Spec == Init /\ [][Next]_vars

\* the processor keeps executing: an operation that can take a step takes it
SpecLive == Spec /\ WF_vars(Next)

---------------------------------------------------------------------------
\* The status decoder on its own: the hardware raises error bits, the driver
\* polls for a flag, on every value of STAT0.

FlagOf(res) ==
    CASE res = "Bus" -> "berr"
      [] res = "Arbitration" -> "lostarb"
      [] res = "Acknowledge" -> "aerr"
      [] res = "Overrun" -> "ouerr"
      [] OTHER -> ""

enginevars == << ctl0, start_retries, start_timeout, addr_timeout, data_timeout,
                 waitvars, startvars, callvars, pc, ip, sub, obs, buffer, ret, log,
                 clkcfg, clkregs, wlog >>

\* the hardware sets an error bit of STAT0
HwRaise ==
    /\ \E f \in ErrFlags :
         /\ stat0' = stat0 \cup {f}
         /\ since' = since \cup {f}
    /\ dflag' = ""
    /\ dseen' = {}
    /\ drepeat' = FALSE
    /\ UNCHANGED << dres, enginevars >>

\* wait_for_flag!(i2c, flag), the read-only bits showing `ready`
DecoderPoll ==
    /\ \E flag \in ReadyFlags, ready \in SUBSET ReadyFlags :
         LET seen == stat0 \cup ready
             r == WaitForFlag(seen, flag)
         IN  /\ stat0' = r.stat0 \cap ErrFlags
             /\ dflag' = flag
             /\ dseen' = seen
             /\ dres' = r.res
             /\ drepeat' = (r.res \in HwErrors /\ dres = r.res
                              /\ FlagOf(r.res) \notin since)
    /\ since' = {}
    /\ UNCHANGED enginevars

NextDecoder ==
    \/ HwRaise
    \/ DecoderPoll

InitDecoder == Init /\ start_retries = 1

SpecDecoder == InitDecoder /\ [][NextDecoder]_vars

---------------------------------------------------------------------------
\* Construction and the primitives that write CTL0, on every configuration.

\* bus frequencies asked for, Hz
Freqs == {0, 100, 10000, BusHz, MaxFrequency, MaxFrequency + 1}

Modes ==
    {Standard(f) : f \in Freqs}
        \cup {Fast(f, d) : f \in Freqs, d \in {"Ratio2to1", "Ratio16to9"}}

\* peripheral clocks and system clocks the clock tree resolves, Hz
Pclk1s == {Pclk1Hz, 36 * MHz, 60 * MHz}
Sysclks == {SysclkHz, 120 * MHz}

NoArgs == Args(NoMode, 0, 0, 0, 0, 0, 0, FALSE)

InitConstruct ==
    /\ Idle
    /\ mode = NoMode
    /\ pclk1 = 0
    /\ built = "none"
    /\ args = NoArgs
    /\ wlog = << >>
    /\ ctl0 = Ctl0ResetValue
    /\ ctl1 = 0
    /\ rt = NoRegs.rt
    /\ ckcfg = NoRegs.ckcfg
    /\ start_retries = 0
    /\ start_timeout = U32Of(0)
    /\ addr_timeout = U32Of(0)
    /\ data_timeout = U32Of(0)

opvars == << stat0, decvars, waitvars, startvars, callvars,
             pc, ip, sub, obs, buffer, ret, log >>

\* where construction ends: the assert, a panic inside init, a panic on a
\* product of blocking_i2c (overflow checks on), or an engine
OutcomeNoAssert(a, i, b) ==
    IF i.panic THEN "init"
    ELSE IF a.checks /\ b.overflow THEN "overflow"
    ELSE "ok"

Outcome(a, i, b) ==
    IF a.mode.frequency > MaxFrequency THEN "assert"
    ELSE IF i.panic THEN "init"
    ELSE IF a.checks /\ b.overflow THEN "overflow"
    ELSE "ok"

\* BlockingI2c::create_internal: I2c::create_internal, then blocking_i2c
Construct ==
    /\ built = "none"
    /\ \E m \in Modes, p \in Pclk1s, r \in 0..MaxRetries, sc \in Sysclks,
          su \in {StartTimeoutUs, LongUs}, au \in {AddrTimeoutUs, LongUs},
          du \in {DataTimeoutUs, LongUs}, checks \in BOOLEAN :
         LET a == Args(m, p, su, r, au, du, sc, checks)
             i == I2cInit(m, p, checks, [rt |-> rt, ckcfg |-> ckcfg])
             b == BlockingI2c(su, r, au, du, sc)
             out == Outcome(a, i, b)
         IN  /\ args' = a
             /\ built' = out
             /\ IF out = "assert"
                THEN UNCHANGED << ctl0, clkregs, wlog >>
                ELSE /\ wlog' = Writes(SubSeq(InitSteps, 1, i.writes), ctl0.i2cen)
                     /\ ctl0' = i.ctl0
                     /\ ctl1' = i.ctl1
                     /\ rt' = i.rt
                     /\ ckcfg' = i.ckcfg
             /\ IF out = "ok"
                THEN /\ mode' = m
                     /\ pclk1' = p
                     /\ start_retries' = b.start_retries
                     /\ start_timeout' = b.start_timeout
                     /\ addr_timeout' = b.addr_timeout
                     /\ data_timeout' = b.data_timeout
                ELSE UNCHANGED << mode, pclk1, start_retries, start_timeout,
                                  addr_timeout, data_timeout >>
    /\ UNCHANGED opvars

\* a primitive that changes CTL0 only
Primitive(c) ==
    /\ ctl0 # c
    /\ ctl0' = c
    /\ wlog' = << >>
    /\ UNCHANGED << opvars, blkcfg, clkregs >>

PrimSendStart == built = "ok" /\ Primitive(SendStart(ctl0))
PrimSendStop == built = "ok" /\ Primitive(SendStop(ctl0))

\* the ctl0.modify calls of the ACK and ACK-position bits
PrimCtl0Modify ==
    /\ built = "ok"
    /\ \E what \in {"nak", "ack", "next_ack", "current_nak"} :
         Primitive(Ctl0Modify(ctl0, what))

\* I2c::reset
PrimReset ==
    /\ built = "ok"
    /\ ctl0' = ResetCtl0(ctl0)
    /\ LET i == I2cInit(mode, pclk1, args.checks, [rt |-> rt, ckcfg |-> ckcfg])
       IN  /\ ctl1' = i.ctl1
           /\ rt' = i.rt
           /\ ckcfg' = i.ckcfg
           /\ wlog' = Writes(ResetSteps \o SubSeq(InitSteps, 1, i.writes), ctl0.i2cen)
    /\ UNCHANGED << opvars, blkcfg >>

NextConstruct ==
    \/ Construct
    \/ PrimSendStart
    \/ PrimSendStop
    \/ PrimCtl0Modify
    \/ PrimReset

SpecConstruct == InitConstruct /\ [][NextConstruct]_vars

---------------------------------------------------------------------------
\* What the log of an operation shows.

Done == pc = "done"

IsWait(e, flag, res) == e.ev = "WAIT" /\ e.flag = flag /\ e.res = res
IsCall(e, fn) == e.ev = "CALL" /\ e.flag = fn

Count(l, ev) == Cardinality({i \in 1..Len(l) : l[i].ev = ev})
Max(S) == CHOOSE x \in S : \A y \in S : y <= x
Min(S) == CHOOSE x \in S : \A y \in S : x <= y

\* the START, address, data-write and STOP events, in order
BusEvents(l) == SelectSeq(l, LAMBDA e : e.ev \in {"START", "ADDR", "DATA", "STOP"})

\* the waits that did not observe their condition
FailedWaits(l) == {i \in 1..Len(l) : l[i].ev = "WAIT" /\ l[i].res # "Ok"}

\* the log from its last START on (empty when there is none)
FromLastStart(l) ==
    LET S == {i \in 1..Len(l) : l[i].ev = "START"}
    IN  IF S = {} THEN << >> ELSE SubSeq(l, Max(S), Len(l))

\* the events of the START phase that the operation ended in, when it ended
\* in one: the log after its last event that is no START, failed start wait
\* or RESET
IsStartPhaseEv(e) == e.ev \in {"START", "RESET"} \/ IsWait(e, "sbsend", "Err")
StartTail(l) ==
    LET O == {i \in 1..Len(l) : ~IsStartPhaseEv(l[i])}
    IN  IF O = {} THEN l ELSE SubSeq(l, Max(O) + 1, Len(l))

\* the last call entered is write_without_stop
InWritePhase(l) ==
    LET C == {i \in 1..Len(l) : l[i].ev = "CALL"}
    IN  C # {} /\ l[Max(C)].flag = "write_without_stop"

HasCall(l, fn) == \E i \in 1..Len(l) : IsCall(l[i], fn)
CallIdx(l, fn) == Min({i \in 1..Len(l) : IsCall(l[i], fn)})
LastEv(l) == l[Len(l)]

---------------------------------------------------------------------------
\* C1: a write of n >= 1 bytes in which every wait observes its condition
\* (start sent on the first attempt, address and every byte acknowledged, no
\* error bit, STOP completed) makes exactly one START request, one address
\* write with the read bit clear and addr in the upper seven bits, n data
\* writes carrying bytes[1..n] in order, then one STOP request, and returns Ok.
C1_WriteAcked ==
    (/\ Done /\ op.name = "write" /\ Len(op.bytes) >= 1
     /\ FailedWaits(log) = {}
     /\ \E i \in 1..Len(log) : IsWait(log[i], "sbsend", "Ok"))
    => LET b == BusEvents(log)
           n == Len(op.bytes)
       IN  /\ ret = "Ok"
           /\ Len(b) = n + 3
           /\ b[1].ev = "START"
           /\ b[2].ev = "ADDR" /\ b[2].arg % 2 = 0 /\ b[2].arg \div 2 = op.addr
           /\ \A i \in 1..n : b[2 + i].ev = "DATA" /\ b[2 + i].arg = op.bytes[i]
           /\ b[n + 3].ev = "STOP"

C1_Witness ==
    /\ Done /\ op.name = "write" /\ op.addr = 80 /\ op.bytes = << 1, 2 >>
    /\ FailedWaits(log) = {} /\ ret = "Ok"

\* C2: in every operation, a wait for the address-acknowledged flag that ends
\* with Acknowledge is followed by exactly one STOP request and nothing else:
\* the operation has returned Acknowledge, and that STOP is the only one of
\* the operation.
C2_AddrNackStops ==
    \A i \in 1..Len(log) :
        IsWait(log[i], "addsend", "Acknowledge")
        => /\ Len(log) = i + 1
           /\ log[i + 1].ev = "STOP"
           /\ Count(log, "STOP") = 1
           /\ Done /\ ret = "Acknowledge"

C2_Witness ==
    /\ Done /\ op.name = "write_read" /\ HasCall(log, "read")
    /\ Len(log) >= 2 /\ IsWait(log[Len(log) - 1], "addsend", "Acknowledge")

\* C3: with start_retries = r >= 1, an operation that ends in a START phase
\* all of whose attempts failed has made, in that phase, r START requests,
\* each followed by its failed wait and a soft reset, returns the outcome of
\* the last attempt, and has written no address in that phase.
C3_StartExhausted ==
    (Done /\ start_retries >= 1 /\ log # << >> /\ LastEv(log).ev = "RESET")
    => LET t == StartTail(log)
       IN  /\ Len(t) = 3 * start_retries
           /\ \A k \in 0..(start_retries - 1) :
                /\ t[3 * k + 1].ev = "START"
                /\ IsWait(t[3 * k + 2], "sbsend", "Err")
                /\ t[3 * k + 3].ev = "RESET"
           /\ ret = obs.res
           /\ ret \in HwErrors \cup {"WouldBlock"}

C3_Witness ==
    /\ Done /\ start_retries = 2 /\ log # << >> /\ LastEv(log).ev = "RESET"
    /\ ret = "WouldBlock" /\ op.name = "write"

\* C4: a busy-wait returns the timeout outcome only when at least its budget
\* of cycles has really elapsed since the first sample, also when the 32-bit
\* counter has wrapped around in between.
C4_TimeoutNotEarly ==
    obs.res = "WouldBlock" => GeqU32(U32Of(obs.ticks), obs.cycles)

C4_Witness ==
    /\ obs.res = "WouldBlock" /\ obs.started = U32Max
    /\ obs.cycles = data_timeout /\ obs.ticks >= 3

\* C5: a poll of the status decoder returns Bus if the bus-error bit is set;
\* otherwise Arbitration if arbitration-lost is set; otherwise Acknowledge if
\* acknowledge-error is set; otherwise Overrun if overrun is set; otherwise
\* ready if the requested flag is set; otherwise not-ready.  An error bit
\* wins over the requested flag.
C5_DecoderPriority ==
    dflag # ""
    => /\ "berr" \in dseen => dres = "Bus"
       /\ ("lostarb" \in dseen /\ "berr" \notin dseen) => dres = "Arbitration"
       /\ ("aerr" \in dseen /\ dseen \cap {"berr", "lostarb"} = {})
            => dres = "Acknowledge"
       /\ ("ouerr" \in dseen /\ dseen \cap {"berr", "lostarb", "aerr"} = {})
            => dres = "Overrun"
       /\ (dflag \in dseen /\ dseen \cap ErrFlags = {}) => dres = "Ok"
       /\ (dflag \notin dseen /\ dseen \cap ErrFlags = {}) => dres = "WouldBlock"
       /\ (dseen \cap ErrFlags # {}) => dres \in HwErrors

C5_Witness ==
    /\ dflag = "btc" /\ dseen = {"aerr", "ouerr", "btc", "tbe"}
    /\ dres = "Acknowledge"

\* C6: right after a poll that reports an error the status bit of that error
\* is clear, and no poll reports the error of the poll before it unless the
\* hardware has set the bit again in between.
C6_ErrorClearedOnReport ==
    /\ (dflag # "" /\ dres \in HwErrors) => FlagOf(dres) \notin stat0
    /\ ~drepeat

C6_Witness ==
    /\ dflag # "" /\ dres = "Overrun" /\ "ouerr" \in dseen /\ "ouerr" \notin stat0

\* the last wait of the log that failed
LastFailedWait(l) == l[Max(FailedWaits(l))]
StopAfterFailure(l) ==
    \E i \in 1..Len(l) : l[i].ev = "STOP" /\ i > Max(FailedWaits(l))

\* C7 as stated: whenever an operation returns a hardware-reported error, a
\* STOP has been requested after the error was detected.
C7_StopOnEveryHwError ==
    (Done /\ ret \in HwErrors) => StopAfterFailure(log)

\* C7 as amended: an operation that returns a hardware-reported error has
\* requested a STOP after detecting it exactly when the error is Acknowledge
\* and was detected in the address wait or in the data phase of a write
\* (write_bytes_and_wait); after Bus, Arbitration and Overrun, and after an
\* Acknowledge in the START wait or in the data phase of a read, it returns
\* without a STOP.
C7_StopOnWriteNack ==
    (Done /\ ret \in HwErrors /\ FailedWaits(log) # {})
    => LET w == LastFailedWait(log)
       IN  StopAfterFailure(log)
           <=> /\ ret = "Acknowledge"
               /\ \/ w.flag = "addsend"
                  \/ w.flag \in {"tbe", "btc"} /\ InWritePhase(log)

C7_Witness ==
    /\ Done /\ ret = "Acknowledge" /\ FailedWaits(log) # {}
    /\ LastFailedWait(log).flag = "tbe" /\ LastEv(log).ev = "STOP"

\* C8: the accesses of a successful read of n >= 3 bytes, from its last START
RECURSIVE C8_Leading(_, _)
C8_Leading(i, k) ==
    IF i > k THEN << >>
    ELSE << Ev("WAIT", "rbne", "Ok", 0), Ev("RD", "", "", i) >> \o C8_Leading(i + 1, k)

C8_Expected(addr, n) ==
    << Ev("START", "", "", 0), Ev("WAIT", "sbsend", "Ok", 0),
       Ev("RD_STAT0", "", "", 0), Ev("ADDR", "", "", 2 * addr + 1),
       Ev("WAIT", "addsend", "Ok", 0),
       Ev("CTL0", "ack", "", 0),
       Ev("RD_STAT0", "", "", 0), Ev("RD_STAT1", "", "", 0) >>
    \o C8_Leading(1, n - 3)
    \o << Ev("WAIT", "btc", "Ok", 0),
          Ev("CTL0", "nak", "", 0),
          Ev("RD", "", "", n - 2),
          Ev("STOP", "", "", 0),
          Ev("RD", "", "", n - 1),
          Ev("WAIT", "rbne", "Ok", 0),
          Ev("RD", "", "", n),
          Ev("WAIT", "stop", "Ok", 0),
          Ev("CTL0", "ack", "", 0) >>

\* C8: a read of n >= 3 bytes that returns Ok has made, from its START on:
\* START and address with the read bit set, ACK enabled, the status registers
\* read, for each of the n-3 leading bytes a wait for receive-buffer-not-empty
\* and one data read, a wait for byte-transfer-complete, NAK, trailing byte 0
\* read, STOP requested, trailing byte 1 read, a wait for
\* receive-buffer-not-empty, trailing byte 2 read, a wait for STOP
\* completion, ACK enabled; in this order and nothing else.
C8_ReadLongSequence ==
    (Done /\ ret = "Ok" /\ op.nbuf >= 3)
    => FromLastStart(log) = C8_Expected(op.addr, op.nbuf)

C8_Witness ==
    /\ Done /\ ret = "Ok" /\ op.name = "read" /\ op.nbuf = 4
    /\ Count(log, "RD") = 4

\* write_bytes_and_wait returned Ok: its wait for byte-transfer-complete did
WritePhaseOk(l) ==
    \E i \in 1..Len(l) : IsWait(l[i], "btc", "Ok") /\ InWritePhase(SubSeq(l, 1, i))

\* a STOP request directly followed by the wait for STOP completion
ExplicitStop(l) ==
    \E i \in 1..(Len(l) - 1) : l[i].ev = "STOP" /\ l[i + 1].ev = "WAIT" /\ l[i + 1].flag = "stop"

\* C9: write_read enters write_without_stop iff bytes is non-empty; enters
\* read iff buffer is non-empty and the write phase, if any, succeeded;
\* requests a STOP and waits for its completion iff bytes is non-empty, buffer
\* is empty and the write phase succeeded; with both empty it touches no
\* register and returns Ok.
C9_WriteReadPhases ==
    (Done /\ op.name = "write_read")
    => /\ HasCall(log, "write_without_stop") <=> op.bytes # << >>
       /\ HasCall(log, "read")
            <=> (op.nbuf # 0 /\ (op.bytes = << >> \/ WritePhaseOk(log)))
       /\ ExplicitStop(log)
            <=> (op.bytes # << >> /\ op.nbuf = 0 /\ WritePhaseOk(log))
       /\ (op.bytes = << >> /\ op.nbuf = 0) => (log = << >> /\ ret = "Ok")

C9_Witness ==
    /\ Done /\ op.name = "write_read" /\ op.bytes = << 1, 2 >> /\ op.nbuf = 0
    /\ ExplicitStop(log) /\ ret = "Ok"

\* C10: in a write_read with bytes and buffer non-empty whose write phase
\* succeeded, no STOP is requested from the last data write of the write
\* phase to the first START of the read phase; when the call returns Ok it
\* has requested exactly one STOP, inside the read sequence.
C10_RepeatedStart ==
    (op.name = "write_read" /\ op.bytes # << >> /\ op.nbuf # 0 /\ HasCall(log, "read"))
    => LET c == CallIdx(log, "read")
           d == Max({i \in 1..c : log[i].ev = "DATA"})
           S == {i \in c..Len(log) : log[i].ev = "START"}
           e == IF S = {} THEN Len(log) ELSE Min(S)
       IN  /\ \A i \in d..e : log[i].ev # "STOP"
           /\ (Done /\ ret = "Ok")
                => /\ Count(log, "STOP") = 1
                   /\ \A i \in 1..Len(log) : log[i].ev = "STOP" => i > c

C10_Witness ==
    /\ Done /\ ret = "Ok" /\ op.name = "write_read"
    /\ op.bytes = << 2, 1 >> /\ op.nbuf = 2

---------------------------------------------------------------------------
\* Clock programming and construction.

\* an engine in standard mode / fast mode was returned
BuiltStandard == built = "ok" /\ mode.kind = "Standard"
BuiltFast == built = "ok" /\ mode.kind = "Fast"

\* max(floor(p / d), least), no cast
DivisorOf(p, d, least) == IF p \div d > least THEN p \div d ELSE least

\* C11: for a standard-mode frequency f with 1 <= f <= 100 kHz and every
\* pclk1, the clock-control field holds floor(pclk1 / 1_000_000), the
\* rise-time register floor(pclk1 / 1_000_000) + 1, the clock divisor
\* max(floor(pclk1 / (2 f)), 4), which is >= 4, and the fast-mode bit and the
\* duty bit are clear.
C11_StandardClock ==
    (BuiltStandard /\ mode.frequency \in 1..BusHz)
    => /\ ctl1 = pclk1 \div MHz
       /\ rt = pclk1 \div MHz + 1
       /\ ckcfg.clkc = DivisorOf(pclk1, 2 * mode.frequency, 4)
       /\ ckcfg.clkc >= 4
       /\ ~ckcfg.fast /\ ~ckcfg.dtcy

\* C12: for a fast-mode frequency f with 1 <= f <= 400 kHz and every pclk1,
\* the rise-time register holds floor(pclk1_MHz * 300 / 1000) + 1 and the
\* fast-mode bit is set; with Ratio2to1 the divisor is
\* max(floor(pclk1 / (3 f)), 1) and the duty bit is clear, with Ratio16to9 it
\* is max(floor(pclk1 / (25 f)), 1) and the duty bit is set; the divisor is
\* >= 1.
C12_FastClock ==
    (BuiltFast /\ mode.frequency \in 1..MaxFrequency)
    => /\ rt = ((pclk1 \div MHz) * 300) \div 1000 + 1
       /\ ckcfg.fast
       /\ ckcfg.clkc >= 1
       /\ mode.duty_cycle = "Ratio2to1"
            => /\ ckcfg.clkc = DivisorOf(pclk1, 3 * mode.frequency, 1)
               /\ ~ckcfg.dtcy
       /\ mode.duty_cycle = "Ratio16to9"
            => /\ ckcfg.clkc = DivisorOf(pclk1, 25 * mode.frequency, 1)
               /\ ckcfg.dtcy

\* C15: every engine that exists has a bus frequency <= 400 kHz;
\* construction with a higher frequency panics with CTL0, CTL1, RT and CKCFG
\* still at their reset values; and no step changes the stored mode or the
\* stored pclk1 of an engine.
C15_FrequencyBound ==
    /\ [](built = "ok" => mode.frequency <= MaxFrequency)
    /\ []((built # "none" /\ args.mode.frequency > MaxFrequency)
            => /\ built = "assert"
               /\ ctl0 = Ctl0ResetValue /\ ctl1 = 0
               /\ rt = NoRegs.rt /\ ckcfg = NoRegs.ckcfg)
    /\ [][built = "ok" => UNCHANGED << mode, pclk1 >>]_vars

C15_Witness ==
    /\ built = "assert" /\ args.mode.frequency = MaxFrequency + 1
    /\ ckcfg = CkcfgResetValue

\* us * mhz with no bound on the high half
ExactProduct(us, mhz) ==
    LET lo == (us % W16) * mhz
    IN  << (us \div W16) * mhz + (lo \div W16), lo % W16 >>

\* C17: each cycle budget is the exact product of its microsecond budget and
\* floor(sysclk / 1_000_000), never that product modulo 2^32, and
\* construction does not panic on the multiplication.
C17_ExactBudgets ==
    /\ built # "overflow"
    /\ built = "ok"
         => LET mhz == args.sysclk \div MHz
            IN  /\ start_timeout = ExactProduct(args.start_us, mhz)
                /\ addr_timeout = ExactProduct(args.addr_us, mhz)
                /\ data_timeout = ExactProduct(args.data_us, mhz)

---------------------------------------------------------------------------
\* Timeouts, termination and the START phase.

\* C13: a timeout is an outcome of its own kind; a timeout of the address
\* wait, a data wait or the STOP-completion wait is the last register access
\* of the operation, which returns it at once; a timeout of the START wait is
\* followed by a soft reset and returned only when start_retries attempts
\* have been made.
C13_TimeoutPropagates ==
    /\ "WouldBlock" \notin HwErrors
    /\ \A i \in 1..Len(log) :
         (log[i].ev = "WAIT" /\ log[i].res = "WouldBlock")
         => i = Len(log) /\ Done /\ ret = "WouldBlock"
    /\ (At("start") /\ sub = "loop" /\ last_ret = "WouldBlock")
         => /\ LastEv(log).ev = "RESET"
            /\ retries_left = start_retries - Count(StartTail(log), "START")
    /\ (Done /\ ret = "WouldBlock" /\ log # << >> /\ LastEv(log).ev = "RESET")
         => Count(StartTail(log), "START") = start_retries

C13_Witness ==
    /\ Done /\ ret = "WouldBlock" /\ op.name = "read"
    /\ IsWait(LastEv(log), "addsend", "WouldBlock")

\* the arguments of the events `ev` of the log, in order
ArgsOf(l, ev) ==
    LET sel == SelectSeq(l, LAMBDA e : e.ev = ev)
    IN  [i \in 1..Len(sel) |-> sel[i].arg]

StopCompleted(l) == \E i \in 1..Len(l) : IsWait(l[i], "stop", "Ok")

\* C14: a read into a buffer of n >= 1 bytes returns Ok only after exactly n
\* data-register reads, stored in buffer[0..n-1] in index order, and an
\* observed STOP completion; a write of n >= 1 bytes returns Ok only after
\* the n bytes were written to the data register in order, byte-transfer-
\* complete was observed after the last one, and STOP completion was observed.
C14_NoPartialSuccess ==
    (Done /\ ret = "Ok")
    => /\ (op.name = "read" /\ op.nbuf >= 1)
            => /\ ArgsOf(log, "RD") = [i \in 1..op.nbuf |-> i]
               /\ buffer = [i \in 1..op.nbuf |-> RxByte(i)]
               /\ StopCompleted(log)
       /\ (op.name = "write" /\ Len(op.bytes) >= 1)
            => /\ ArgsOf(log, "DATA") = op.bytes
               /\ \E j \in 1..Len(log) :
                    /\ IsWait(log[j], "btc", "Ok")
                    /\ \A i \in 1..Len(log) : log[i].ev = "DATA" => i < j
               /\ StopCompleted(log)

C14_Witness ==
    /\ Done /\ ret = "Ok" /\ op.name = "read" /\ op.nbuf = 4
    /\ buffer = << RxByte(1), RxByte(2), RxByte(3), RxByte(4) >>

\* the budget of the busy-wait the operation is in, in cycles
ValU32(x) == x[1] * W16 + x[2]
CurrentBudget ==
    IF At("start") THEN ValU32(start_timeout)
    ELSE IF At("addr") THEN ValU32(addr_timeout)
    ELSE ValU32(data_timeout)

C18_AtLeastOneAttempt ==
    /\ start_retries >= 1
    /\ (Done /\ ret \notin {"Ok", "panic"}) => Count(log, "START") >= 1

IsStartEv(e) == e.ev \in {"START", "RESET"} \/ (e.ev = "WAIT" /\ e.flag = "sbsend")

\* the events of the START phase that event i of l belongs to, up to i
PhaseBefore(l, i) ==
    {j \in 1..i : \A k \in j..i : IsStartEv(l[k]) /\ (k < i => l[k].res # "Ok")}

CountIn(l, S, ev) == Cardinality({j \in S : l[j].ev = ev})

\* C19: once a wait for the start-sent flag has succeeded the phase makes no
\* further send_start() and no soft reset; the soft resets of a phase are
\* the failed attempts, one each; and a phase issues at most start_retries
\* STARTs.
C19_StartStopsOnSuccess ==
    \A i \in 1..Len(log) :
        /\ (IsWait(log[i], "sbsend", "Ok") /\ i < Len(log))
             => log[i + 1].ev \notin {"START", "RESET"}
        /\ IsWait(log[i], "sbsend", "Ok")
             => LET P == PhaseBefore(log, i)
                IN  /\ CountIn(log, P, "RESET") = CountIn(log, P, "WAIT") - 1
                    /\ CountIn(log, P, "START") = CountIn(log, P, "WAIT")
        /\ log[i].ev = "RESET" => (i > 1 /\ IsWait(log[i - 1], "sbsend", "Err"))
        /\ IsWait(log[i], "sbsend", "Err") => (i < Len(log) /\ log[i + 1].ev = "RESET")
        /\ log[i].ev = "START"
             => CountIn(log, PhaseBefore(log, i), "START") <= start_retries

C19_Witness ==
    /\ Len(log) >= 6 /\ start_retries = 2
    /\ \E i \in 1..Len(log) :
         /\ IsWait(log[i], "sbsend", "Ok")
         /\ CountIn(log, PhaseBefore(log, i), "RESET") = 1
         /\ i < Len(log)

\* C20: in a 2-byte read, when the address byte has been written the ACK
\* position is `next` and ACK is enabled, also after START retries.
C20_PreArmedAtAddress ==
    (At("addr") /\ sub = "sample" /\ Instr.idx = 1 /\ op.nbuf = 2)
    => (ctl0.poap /\ ctl0.acken)

---------------------------------------------------------------------------
\* The short reads and the data phase of a write.

\* START and the address with the read bit set, both waits succeeding
StartAndAddr(addr) ==
    << Ev("START", "", "", 0), Ev("WAIT", "sbsend", "Ok", 0),
       Ev("RD_STAT0", "", "", 0), Ev("ADDR", "", "", 2 * addr + 1),
       Ev("WAIT", "addsend", "Ok", 0) >>

\* the log from the entry of read on
ReadLog(l) == SubSeq(l, CallIdx(l, "read"), Len(l))

C21_Expected(addr) ==
    StartAndAddr(addr)
    \o << Ev("RD_STAT0", "", "", 0), Ev("RD_STAT1", "", "", 0),
          Ev("CTL0", "nak", "", 0),
          Ev("WAIT", "btc", "Ok", 0),
          Ev("STOP", "", "", 0),
          Ev("RD", "", "", 1), Ev("RD", "", "", 2),
          Ev("WAIT", "stop", "Ok", 0),
          Ev("CTL0", "current_nak", "", 0),
          Ev("CTL0", "ack", "", 0) >>

\* C21: a read of 2 bytes that returns Ok has made, in this order: ACK
\* position `next` with ACK enabled, START and address with the read bit set
\* (after the failed attempts, if any), the status registers read, NAK, a
\* wait for byte-transfer-complete, STOP requested, buffer[0] and buffer[1]
\* read, a wait for STOP completion, ACK position `current`, ACK enabled.
C21_ReadTwoSequence ==
    (Done /\ ret = "Ok" /\ op.nbuf = 2)
    => LET r == ReadLog(log)
           t == FromLastStart(log)
       IN  /\ r[2] = Ev("CTL0", "next_ack", "", 0)
           /\ t = C21_Expected(op.addr)
           /\ \A i \in 3..(Len(r) - Len(t)) : IsStartPhaseEv(r[i])
           /\ buffer = << RxByte(1), RxByte(2) >>
           /\ ~ctl0.poap /\ ctl0.acken

C21_Witness ==
    /\ Done /\ ret = "Ok" /\ op.name = "read" /\ op.nbuf = 2
    /\ Count(log, "RD") = 2 /\ Count(log, "RESET") = 1

C22_Expected(addr) ==
    StartAndAddr(addr)
    \o << Ev("CTL0", "nak", "", 0),
          Ev("RD_STAT0", "", "", 0), Ev("RD_STAT1", "", "", 0),
          Ev("STOP", "", "", 0),
          Ev("WAIT", "rbne", "Ok", 0),
          Ev("RD", "", "", 1),
          Ev("WAIT", "stop", "Ok", 0),
          Ev("CTL0", "ack", "", 0) >>

\* C22: a read of 1 byte that returns Ok has made, from its START on: START
\* and address with the read bit set, NAK, the status registers read, STOP
\* requested, a wait for receive-buffer-not-empty, buffer[0] read, a wait for
\* STOP completion, ACK enabled; and ACK is enabled when it returns.
C22_ReadOneSequence ==
    (Done /\ ret = "Ok" /\ op.nbuf = 1)
    => /\ FromLastStart(log) = C22_Expected(op.addr)
       /\ buffer = << RxByte(1) >>
       /\ ctl0.acken

C22_Witness ==
    /\ Done /\ ret = "Ok" /\ op.name = "write_read" /\ op.nbuf = 1
    /\ op.bytes # << >> /\ Count(log, "RD") = 1

\* C23: the first data byte of a write phase is written right after the
\* status registers were read; every later one right after a successful wait
\* for transmit-buffer-empty that followed the data write before it; and the
\* STOP of a write that returns Ok is requested right after the wait for
\* byte-transfer-complete that followed the last data write.
C23_WriteDataOrder ==
    /\ \A i \in 1..Len(log) :
         log[i].ev = "DATA"
         => /\ i > 2
            /\ \/ /\ log[i].arg = op.bytes[1]
                  /\ log[i - 1].ev = "RD_STAT1" /\ log[i - 2].ev = "RD_STAT0"
               \/ /\ IsWait(log[i - 1], "tbe", "Ok")
                  /\ log[i - 2].ev = "DATA"
    /\ (Done /\ ret = "Ok" /\ op.name = "write")
         => /\ Count(log, "STOP") = 1
            /\ \E i \in 3..Len(log) :
                 /\ log[i].ev = "STOP"
                 /\ IsWait(log[i - 1], "btc", "Ok")
                 /\ log[i - 2].ev = "DATA"
                 /\ log[i - 2].arg = op.bytes[Len(op.bytes)]

C23_Witness ==
    /\ Done /\ ret = "Ok" /\ op.name = "write" /\ op.bytes = << 2, 1 >>
    /\ Count(log, "DATA") = 2

\* C24: an Acknowledge error reported by a wait for transmit-buffer-empty or
\* byte-transfer-complete of a write phase is followed by one STOP request
\* and nothing else: no data write, no wait for STOP completion, no read
\* phase; and the operation returns Acknowledge.
C24_WriteNackStops ==
    \A i \in 1..Len(log) :
        (/\ log[i].ev = "WAIT" /\ log[i].flag \in {"tbe", "btc"}
         /\ log[i].res = "Acknowledge"
         /\ InWritePhase(SubSeq(log, 1, i)))
        => /\ Len(log) = i + 1
           /\ log[i + 1].ev = "STOP"
           /\ Count(log, "STOP") = 1
           /\ Done /\ ret = "Acknowledge"
           /\ ~HasCall(log, "read")

C24_Witness ==
    /\ Done /\ ret = "Acknowledge" /\ op.name = "write_read" /\ op.nbuf = 2
    /\ Len(log) > 2 /\ IsWait(log[Len(log) - 1], "btc", "Acknowledge")

---------------------------------------------------------------------------
\* The order of the register writes of init and reset.

ClockRegs == {"ctl1", "rt", "ckcfg"}

\* the writes of the init() run that wlog ends with: reset() writes CTL0
\* twice before it calls init()
InitPart(w) == IF w[1].reg = "ctl0" THEN SubSeq(w, 3, Len(w)) ELSE w

\* C25 as stated: init clears I2CEN before it writes CTL1, RT and CKCFG and
\* sets it after the last of them, and none of the three is written while
\* I2CEN is set.
C25_EnableClearedFirst ==
    (built = "ok" /\ wlog # << >>)
    => LET w == InitPart(wlog)
       IN  \A j \in 1..Len(w) :
             w[j].reg \in ClockRegs
             => /\ ~w[j].en
                /\ \E k \in 1..(j - 1) : w[k].reg = "ctl0"
                /\ \E k \in (j + 1)..Len(w) : w[k].reg = "ctl0"

\* C25 as amended: init writes CTL1 first, then clears I2CEN, then writes RT
\* and CKCFG, then sets I2CEN; I2CEN is clear already when init starts, at
\* construction and in reset, so none of the three registers is written
\* while I2CEN is set.
C25_NotWrittenWhileEnabled ==
    (built = "ok" /\ wlog # << >>)
    => LET w == InitPart(wlog)
       IN  /\ \A j \in 1..Len(wlog) : wlog[j].reg \in ClockRegs => ~wlog[j].en
           /\ [j \in 1..Len(w) |-> w[j].reg] = << "ctl1", "ctl0", "rt", "ckcfg", "ctl0" >>
           /\ ctl0.i2cen

C25_Witness ==
    /\ built = "ok" /\ Len(wlog) = 7
    /\ wlog[1] = [reg |-> "ctl0", en |-> TRUE]
    /\ wlog[3] = [reg |-> "ctl1", en |-> FALSE]

\* C26: right after construction and right after reset CTL0 has I2CEN set
\* and START, STOP, ACK and the ACK position clear; no step of an engine
\* changes CTL1, RT or CKCFG, so after every reset they hold the values of
\* construction; and init run once more on the registers of an engine leaves
\* them as they are.
C26_ResetReestablishes ==
    /\ []((built = "ok" /\ wlog # << >>)
            => ctl0 = [i2cen |-> TRUE, sreset |-> FALSE, start |-> FALSE,
                       stop |-> FALSE, acken |-> FALSE, poap |-> FALSE])
    /\ [][built = "ok" => UNCHANGED << ctl1, rt, ckcfg >>]_vars
    /\ [](built = "ok"
            => LET i == I2cInit(mode, pclk1, args.checks, [rt |-> rt, ckcfg |-> ckcfg])
               IN  /\ ~i.panic
                   /\ << i.ctl1, i.rt, i.ckcfg >> = << ctl1, rt, ckcfg >>)

C26_Witness ==
    /\ built = "ok" /\ Len(wlog) = 7 /\ mode.kind = "Fast"
    /\ ckcfg.fast /\ ckcfg.dtcy /\ ~ctl0.start

\* C30: for every mode with a frequency in 0..400_000 Hz and every pclk1,
\* I2c::create_internal completes and the engine has I2CEN set.
C30_OnlyFrequencyAborts ==
    (built \notin {"none", "overflow"} /\ args.mode.frequency \in 0..MaxFrequency)
    => (built = "ok" /\ ctl0.i2cen)

---------------------------------------------------------------------------
\* What an operation and a poll leave behind.

\* C27: whenever no operation is in progress the ACK position is `current`.
C27_AckPositionDefault ==
    pc \in {"idle", "done"} => ~ctl0.poap

\* C28: a poll that reports an error clears the bit of that error only, every
\* other error bit that was set is still set after the poll; a poll that
\* reports ready or not-ready leaves STAT0 as it was.
C28_OnlyReportedCleared ==
    dflag # ""
    => stat0 = IF dres \in HwErrors THEN (dseen \cap ErrFlags) \ {FlagOf(dres)}
               ELSE dseen \cap ErrFlags

\* C29: a read returns Ok or an error for every buffer length, and with an
\* empty buffer it requests no START, writes no address and reads no data.
C29_ReadEveryLength ==
    (Done /\ op.name = "read")
    => /\ ret # "panic"
       /\ op.nbuf = 0
            => \A i \in 1..Len(log) : log[i].ev \notin {"START", "ADDR", "RD"}
====
